---------------------------- MODULE Spec2Model ----------------------------
(***************************************************************************)
(* A model of package command (js-arias/command): a tree of Commands that  *)
(* is built with Add and walked by Execute, Main and the help renderer.    *)
(*                                                                         *)
(* Strings are sequences of one-character strings, so that name            *)
(* derivation (strings.Fields, strings.ToLower), message formatting        *)
(* (fmt.Sprintf) and sorting are computed as the code computes them.       *)
(***************************************************************************)
EXTENDS Integers, Sequences, FiniteSets, TLC

\* Longest argument vector handed to Execute and Main.
MaxArgs == 2

\* Number of Execute calls the callers start (directly or through Main).
MaxExec == 1

\* Number of Add calls each goroutine issues in the concurrent specification.
MaxCalls == 1

\* Longest vector of topics handed to help.
MaxTopics == 3

\* Number of SetStderr, SetStdin and SetStdout calls the callers make.
MaxSets == 1

(***************************************************************************)
(* Text                                                                    *)
(***************************************************************************)
UpperChars == <<"A", "B", "C", "D", "E", "F", "G", "H", "I", "J", "K", "L", "M", "N", "O", "P", "Q", "R", "S", "T", "U", "V", "W", "X", "Y", "Z">>

LowerChars == <<"a", "b", "c", "d", "e", "f", "g", "h", "i", "j", "k", "l", "m", "n", "o", "p", "q", "r", "s", "t", "u", "v", "w", "x", "y", "z">>

\* Bytes in increasing order, as sort.Strings compares them.
ByteOrder == <<"\n", " ", "!", "\"", "#", "$", "%", "&", "'", "(", ")", "*", "+", ",", "-", ".", "/", "0", "1", "2", "3", "4", "5", "6", "7", "8", "9", ":", ";", "<", "=", ">", "?", "@">> \o UpperChars \o <<"[", "]", "^", "_">> \o LowerChars \o <<"{", "|", "}", "~">>

Chars == {ByteOrder[i] : i \in 1..Len(ByteOrder)} \cup {"\t", "\r"}

\* The rank of a byte in byte order.
Ord == [ch \in Chars |->
           IF \E i \in 1..Len(ByteOrder) : ByteOrder[i] = ch
           THEN CHOOSE i \in 1..Len(ByteOrder) : ByteOrder[i] = ch
           ELSE 0]

IsSpace(ch) == ch \in {" ", "\n", "\t", "\r"}

\* unicode.ToLower and unicode.ToTitle on these characters
ToLowerChar ==
    [ch \in Chars |->
        IF \E i \in 1..Len(UpperChars) : UpperChars[i] = ch
        THEN LowerChars[CHOOSE i \in 1..Len(UpperChars) : UpperChars[i] = ch]
        ELSE ch]

ToTitleChar ==
    [ch \in Chars |->
        IF \E i \in 1..Len(LowerChars) : LowerChars[i] = ch
        THEN UpperChars[CHOOSE i \in 1..Len(LowerChars) : LowerChars[i] = ch]
        ELSE ch]

\* strings.ToLower
ToLower(s) == [i \in 1..Len(s) |-> ToLowerChar[s[i]]]

\* strings.Fields: the maximal runs of non-space characters, in order.
RECURSIVE FieldsFrom(_, _, _)
FieldsFrom(s, i, cur) ==
    IF i > Len(s)
    THEN IF cur = <<>> THEN <<>> ELSE <<cur>>
    ELSE IF IsSpace(s[i])
         THEN (IF cur = <<>> THEN <<>> ELSE <<cur>>) \o FieldsFrom(s, i + 1, <<>>)
         ELSE FieldsFrom(s, i + 1, Append(cur, s[i]))

Fields(s) == FieldsFrom(s, 1, <<>>)

\* strings.Join
RECURSIVE Join(_, _)
Join(ss, sep) ==
    IF ss = <<>> THEN <<>>
    ELSE IF Len(ss) = 1 THEN ss[1]
    ELSE ss[1] \o sep \o Join(Tail(ss), sep)

\* strings.TrimSpace
RECURSIVE TrimLeft(_)
TrimLeft(s) == IF s # <<>> /\ IsSpace(s[1]) THEN TrimLeft(Tail(s)) ELSE s

RECURSIVE TrimRight(_)
TrimRight(s) ==
    IF s # <<>> /\ IsSpace(s[Len(s)]) THEN TrimRight(SubSeq(s, 1, Len(s) - 1)) ELSE s

TrimSpace(s) == TrimRight(TrimLeft(s))

\* The verb %q on a string of printable characters without quotes or backslashes.
Quote(s) == <<"\"">> \o s \o <<"\"">>

\* The verb %-16s: left-justified, padded with spaces to the width.
RECURSIVE PadRight(_, _)
PadRight(s, w) == IF Len(s) >= w THEN s ELSE PadRight(Append(s, " "), w)

\* s < t in byte order.
RECURSIVE StrLess(_, _)
StrLess(s, t) ==
    IF t = <<>> THEN FALSE
    ELSE IF s = <<>> THEN TRUE
    ELSE IF s[1] = t[1] THEN StrLess(Tail(s), Tail(t))
    ELSE Ord[s[1]] < Ord[t[1]]

(***************************************************************************)
(* Commands                                                                *)
(***************************************************************************)
Nodes == {"n1", "n2", "n3", "n4", "n5"}

Nil == "nil"

Usage ==
    [n \in Nodes |->
        CASE n = "n1" -> <<"a", "p", "p">>
          [] n = "n2" -> <<"c", "m", "d">>
          [] n = "n3" -> <<"C", "m", "d", " ", "<", "x", ">">>
          [] n = "n4" -> <<"h", "e", "l", "p">>
          [] n = "n5" -> <<" ", " ">>]

Short ==
    [n \in Nodes |->
        CASE n = "n1" -> <<"a", "n", " ", " ", "a", "p", "p">>
          [] n = "n2" -> <<"c", "m", "d", "s">>
          [] n = "n3" -> <<"a", " ", "c", "m", "d">>
          [] n = "n4" -> <<>>
          [] n = "n5" -> <<"n", "o", "n", "e">>]

Long ==
    [n \in Nodes |->
        CASE n = "n1" -> <<>>
          [] n = "n2" -> <<"\n", "D", "o", "c", ".", "\n">>
          [] n = "n3" -> <<" ">>
          [] n = "n4" -> <<"A", "i", "d">>
          [] n = "n5" -> <<>>]

VARIABLES
    parent,     \* parent[n]: the Command's parent, or Nil
    commands,   \* commands[n]: the children map, name -> Command
    mu,         \* mu[n]: the holder of the Command's mutex, or Nil
    Run,        \* Run[n]: whether the Command has a Run function
    SetFlags,   \* SetFlags[n]: the bool flags its SetFlags function defines
    flags,      \* flags[n]: the Command's current FlagSet
    stdin,      \* the stdio overrides, or Nil
    stdout,
    stderr,
    exit,       \* the status the process exited with, or Nil while it runs
    last,       \* the call the caller made last and what came back
    nexec,      \* the number of Execute calls the callers have started
    nsets,      \* the number of SetStderr, SetStdin and SetStdout calls made
    gor,        \* gor[g]: where goroutine g is in its call of Add
    call        \* the call of Execute that is under way, frame by frame

vars == <<parent, commands, mu, Run, SetFlags, flags, stdin, stdout, stderr, exit, last,
          nexec, nsets, gor, call>>

EmptyMap == [k \in {} |-> Nil]

\* func (c *Command) name() string
\* name() without the lower-casing
nameOf_NoLower ==
    [c \in Nodes |->
        LET f == Fields(Usage[c])
        IN IF Len(f) = 0 THEN <<>> ELSE f[1]]

nameOf ==
    [c \in Nodes |->
        LET f == Fields(Usage[c])
        IN IF Len(f) = 0 THEN <<>> ELSE ToLower(f[1])]

name(c) == nameOf[c]

\* func (c *Command) longName() string
RECURSIVE longNameUp(_, _)
longNameUp(p, nm) ==
    IF p = Nil THEN nm ELSE longNameUp(parent[p], name(p) \o <<" ">> \o nm)

longName(c) == longNameUp(parent[c], name(c))

\* func (c *Command) longUsage() string
RECURSIVE longUsageUp(_, _)
longUsageUp(p, us) ==
    IF p = Nil THEN us ELSE longUsageUp(parent[p], name(p) \o <<" ">> \o us)

longUsage(c) == longUsageUp(parent[c], Usage[c])

\* The loop of Add stopping after c itself
InChain_SelfOnly(p, kid) == p # Nil /\ p = kid

\* The loop of Add: child is c or one of the Commands above c.
RECURSIVE InChain(_, _)
InChain(p, kid) ==
    IF p = Nil THEN FALSE
    ELSE IF p = kid THEN TRUE
    ELSE InChain(parent[p], kid)

\* The Command k parent references above n, or Nil.
RECURSIVE Up(_, _)
Up(n, k) == IF k = 0 \/ n = Nil THEN n ELSE Up(parent[n], k - 1)

txtCommand == <<"c", "o", "m", "m", "a", "n", "d", " ">>

txtAdding == <<":", " ", "a", "d", "d", "i", "n", "g", " ">>

txtNilCommand == <<":", " ", "a", "d", "d", "i", "n", "g", " ", "a", " ", "n", "i", "l", " ", "c", "o", "m", "m", "a", "n", "d">>

txtLoop == <<":", " ", "a", "d", "d", "i", "n", "g", " ", "a", " ", "c", "o", "m", "m", "a", "n", "d", " ", "t", "o", " ", "i", "t", "s", "e", "l", "f", " ", "o", "r", " ", "i", "t", "s", " ", "c", "h", "i", "l", "d", "r", "e", "n">>

txtNoUsage == <<":", " ", "a", "d", "d", "i", "n", "g", " ", "a", " ", "c", "o", "m", "m", "a", "n", "d", " ", "w", "i", "t", "h", "o", "u", "t", " ", "u", "s", "a", "g", "e">>

txtInUse == <<":", " ", "c", "o", "m", "m", "a", "n", "d", " ", "n", "a", "m", "e", " ", "a", "l", "r", "e", "a", "d", "y", " ", "i", "n", " ", "u", "s", "e">>

txtOtherParent == <<":", " ", "c", "o", "m", "m", "a", "n", "d", " ", "h", "a", "s", " ", "a", "n", "o", "t", "h", "e", "r", " ", "p", "a", "r", "e", "n", "t", ":", " ">>

\* Add testing child.parent before the name in use
AddPanic_ParentFirst(c, kid) ==
    IF kid = Nil
    THEN txtCommand \o Quote(longName(c)) \o txtNilCommand
    ELSE IF InChain(c, kid)
    THEN txtCommand \o Quote(longName(c)) \o txtAdding \o Quote(name(kid)) \o txtLoop
    ELSE IF name(kid) = <<>>
    THEN txtCommand \o Quote(longName(c)) \o txtNoUsage
    ELSE IF parent[kid] # Nil
    THEN txtCommand \o Quote(longName(c)) \o txtAdding \o Quote(name(kid))
             \o txtOtherParent \o Quote(longName(parent[kid]))
    ELSE IF name(kid) \in DOMAIN commands[c]
    THEN txtCommand \o Quote(longName(c)) \o txtAdding \o Quote(name(kid)) \o txtInUse
    ELSE <<>>

\* Add without the test of child.parent
AddPanic_NoParentTest(c, kid) ==
    IF kid = Nil
    THEN txtCommand \o Quote(longName(c)) \o txtNilCommand
    ELSE IF InChain(c, kid)
    THEN txtCommand \o Quote(longName(c)) \o txtAdding \o Quote(name(kid)) \o txtLoop
    ELSE IF name(kid) = <<>>
    THEN txtCommand \o Quote(longName(c)) \o txtNoUsage
    ELSE IF name(kid) \in DOMAIN commands[c]
    THEN txtCommand \o Quote(longName(c)) \o txtAdding \o Quote(name(kid)) \o txtInUse
    ELSE <<>>

\* The panic message of c.Add(child), or <<>> when Add does not panic.
AddPanic(c, kid) ==
    IF kid = Nil
    THEN txtCommand \o Quote(longName(c)) \o txtNilCommand
    ELSE IF InChain(c, kid)
    THEN txtCommand \o Quote(longName(c)) \o txtAdding \o Quote(name(kid)) \o txtLoop
    ELSE IF name(kid) = <<>>
    THEN txtCommand \o Quote(longName(c)) \o txtNoUsage
    ELSE IF name(kid) \in DOMAIN commands[c]
    THEN txtCommand \o Quote(longName(c)) \o txtAdding \o Quote(name(kid)) \o txtInUse
    ELSE IF parent[kid] # Nil
    THEN txtCommand \o Quote(longName(c)) \o txtAdding \o Quote(name(kid))
             \o txtOtherParent \o Quote(longName(parent[kid]))
    ELSE <<>>

\* A map that is made anew on every insertion
MapPut_Fresh(m, k, v) == [x \in {k} |-> v]

\* c.commands[name] = child
MapPut(m, k, v) == [x \in DOMAIN m \cup {k} |-> IF x = k THEN v ELSE m[x]]

NoErr == [kind |-> "nil", c |-> Nil, msg |-> <<>>]

NoCall ==
    [op |-> "none", c |-> Nil, child |-> Nil, args |-> <<>>, act |-> "nil",
     panic |-> <<>>, err |-> NoErr, out |-> <<>>, ran |-> <<>>]

\* func (c *Command) Add(child *Command)
Add(c, kid) ==
    /\ exit = Nil
    /\ last.op = "none"
    /\ mu[c] = Nil
    /\ LET msg == AddPanic(c, kid)
       IN /\ last' = [NoCall EXCEPT !.op = "Add", !.c = c, !.child = kid, !.panic = msg]
          /\ IF msg # <<>>
             THEN UNCHANGED <<commands, parent>>
             ELSE /\ commands' = [commands EXCEPT ![c] = MapPut(commands[c], name(kid), kid)]
                  /\ parent' = [parent EXCEPT ![kid] = c]
    /\ UNCHANGED <<mu, Run, SetFlags, call, flags, stdin, stdout, stderr, nsets, exit, nexec, gor>>

\* The caller takes the result of its last call (recovering a panic).
Return ==
    /\ exit = Nil
    /\ last.op # "none"
    /\ last' = NoCall
    /\ UNCHANGED <<parent, commands, mu, Run, SetFlags, call, flags, stdin, stdout, stderr, nsets, exit,
                   nexec, gor>>

(***************************************************************************)
(* Flag parsing (package flag, as Execute uses it)                         *)
(***************************************************************************)
txtHelpName == <<"h", "e", "l", "p">>

txtH == <<"h">>

txtBadSyntax == <<"b", "a", "d", " ", "f", "l", "a", "g", " ", "s", "y", "n", "t", "a", "x", ":", " ">>

txtNotDefined == <<"f", "l", "a", "g", " ", "p", "r", "o", "v", "i", "d", "e", "d", " ", "b", "u", "t", " ", "n", "o", "t", " ", "d", "e", "f", "i", "n", "e", "d", ":", " ", "-">>

txtInvalidBool == <<"i", "n", "v", "a", "l", "i", "d", " ", "b", "o", "o", "l", "e", "a", "n", " ", "v", "a", "l", "u", "e", " ">>

txtFor == <<" ", "f", "o", "r", " ", "-">>

txtParseError == <<":", " ", "p", "a", "r", "s", "e", " ", "e", "r", "r", "o", "r">>

BoolValues ==
    {<<"1">>, <<"0">>, <<"t">>, <<"f">>, <<"T">>, <<"F">>, <<"t", "r", "u", "e">>, <<"f", "a", "l", "s", "e">>,
     <<"T", "R", "U", "E">>, <<"F", "A", "L", "S", "E">>, <<"T", "r", "u", "e">>, <<"F", "a", "l", "s", "e">>}

\* The position of the first "=" after the first character of s, or 0.
EqualsAt(s) ==
    IF \E i \in 2..Len(s) : s[i] = "="
    THEN CHOOSE i \in 2..Len(s) : s[i] = "=" /\ \A j \in 2..(i - 1) : s[j] # "="
    ELSE 0

\* FlagSet.Parse on a FlagSet whose defined flags are the bool flags in
\* formal: help is whether flag.ErrHelp came back, err is the message of
\* any other error (<<>> when there is none), args is FlagSet.Args().
RECURSIVE Parse(_, _)
Parse(formal, args) ==
    IF args = <<>>
    THEN [help |-> FALSE, err |-> <<>>, args |-> <<>>]
    ELSE LET s == args[1]
         IN IF Len(s) < 2 \/ s[1] # "-"
            THEN [help |-> FALSE, err |-> <<>>, args |-> args]
            ELSE LET minuses == IF s[2] = "-" THEN 2 ELSE 1
                     nv == SubSeq(s, minuses + 1, Len(s))
                 IN IF minuses = 2 /\ Len(s) = 2
                    THEN [help |-> FALSE, err |-> <<>>, args |-> Tail(args)]
                    ELSE IF nv = <<>> \/ nv[1] = "-" \/ nv[1] = "="
                    THEN [help |-> FALSE, err |-> txtBadSyntax \o s, args |-> Tail(args)]
                    ELSE LET eq == EqualsAt(nv)
                             nm == IF eq = 0 THEN nv ELSE SubSeq(nv, 1, eq - 1)
                             val == IF eq = 0 THEN <<>> ELSE SubSeq(nv, eq + 1, Len(nv))
                         IN IF nm \notin formal
                            THEN IF nm = txtHelpName \/ nm = txtH
                                 THEN [help |-> TRUE, err |-> <<>>, args |-> Tail(args)]
                                 ELSE [help |-> FALSE, err |-> txtNotDefined \o nm,
                                       args |-> Tail(args)]
                            ELSE IF eq # 0 /\ val \notin BoolValues
                            THEN [help |-> FALSE,
                                  err |-> txtInvalidBool \o Quote(val) \o txtFor \o nm
                                              \o txtParseError,
                                  args |-> Tail(args)]
                            ELSE Parse(formal, Tail(args))

\* The flags field of a Command that Execute has not been called on.
NilFlagSet == [nil |-> TRUE, name |-> <<>>, formal |-> {}]

\* flag.NewFlagSet(c.name(), flag.ContinueOnError) after c.SetFlags(c)
NewFlagSet(c) == [nil |-> FALSE, name |-> name(c), formal |-> SetFlags[c]]

(***************************************************************************)
(* Standard streams                                                        *)
(***************************************************************************)
RECURSIVE Stderr(_)
Stderr(c) ==
    IF stderr[c] # Nil THEN stderr[c]
    ELSE IF parent[c] # Nil THEN Stderr(parent[c])
    ELSE "os.Stderr"

RECURSIVE Stdin(_)
Stdin(c) ==
    IF stdin[c] # Nil THEN stdin[c]
    ELSE IF parent[c] # Nil THEN Stdin(parent[c])
    ELSE "os.Stdin"

\* Stdout without the walk to the parent
Stdout_Own(c) == IF stdout[c] # Nil THEN stdout[c] ELSE "os.Stdout"

RECURSIVE Stdout(_)
Stdout(c) ==
    IF stdout[c] # Nil THEN stdout[c]
    ELSE IF parent[c] # Nil THEN Stdout(parent[c])
    ELSE "os.Stdout"

\* fmt.Fprintf(w, ...) writing the text s
Write(w, s) == <<[w |-> w, s |-> s]>>

(***************************************************************************)
(* Lookup and help                                                         *)
(***************************************************************************)
\* child looking the name up as it is written
child_NoLower(c, nm) ==
    IF nm = <<>> THEN Nil
    ELSE IF nm \in DOMAIN commands[c] THEN commands[c][nm]
    ELSE Nil

\* func (c *Command) child(name string) (*Command, bool): Nil when not ok
child(c, nm) ==
    IF ToLower(nm) = <<>> THEN Nil
    ELSE IF ToLower(nm) \in DOMAIN commands[c] THEN commands[c][ToLower(nm)]
    ELSE Nil

\* sort.Strings on a set of distinct strings
RECURSIVE SortStrings(_)
SortStrings(S) ==
    IF S = {} THEN <<>>
    ELSE LET m == CHOOSE x \in S : \A y \in S \ {x} : StrLess(x, y)
         IN <<m>> \o SortStrings(S \ {m})

\* children in the reverse of the sorted order
children_Reverse(c) ==
    LET ss == SortStrings({name(commands[c][k]) : k \in DOMAIN commands[c]})
    IN [i \in 1..Len(ss) |-> ss[Len(ss) + 1 - i]]

\* func (c *Command) children() []string
children(c) == SortStrings({name(commands[c][k]) : k \in DOMAIN commands[c]})

\* hasChildren answering yes for every Command
hasChildren_Always(c) == TRUE

\* func (c *Command) hasChildren() bool
hasChildren(c) == Cardinality(DOMAIN commands[c]) > 0

\* func (c *Command) helpPath() string
RECURSIVE pathUp(_, _)
pathUp(p, path) == IF p = Nil THEN path ELSE pathUp(parent[p], <<name(p)>> \o path)

helpPath(c) ==
    LET path == pathUp(c, <<>>)
    IN Join(<<path[1], txtHelpName>> \o Tail(path), <<" ">>)

\* func toTitle(s string) string
toTitle(s) ==
    LET j == Join(Fields(s), <<" ">>)
    IN IF j = <<>> THEN <<>> ELSE <<ToTitleChar[j[1]]>> \o Tail(j)

txtNL == <<"\n">>

txtNLNL == <<"\n", "\n">>

txtUsageHead == <<"U", "s", "a", "g", "e", ":", "\n", "\n", " ", " ", " ", " ">>

txtCommandsAre == <<"T", "h", "e", " ", "c", "o", "m", "m", "a", "n", "d", "s", " ", "a", "r", "e", ":", "\n", "\n">>

txtIndent == <<" ", " ", " ", " ">>

txtUse == <<"\n", "U", "s", "e", " ">>

txtArgCommand == <<" ", "<", "c", "o", "m", "m", "a", "n", "d", ">">>

txtAboutCommand == <<" ", "f", "o", "r", " ", "m", "o", "r", "e", " ", "i", "n", "f", "o", "r", "m", "a", "t", "i", "o", "n", " ", "a", "b", "o", "u", "t", " ", "a", " ", "c", "o", "m", "m", "a", "n", "d", ".", "\n", "\n">>

txtTopics == <<"A", "d", "d", "i", "t", "i", "o", "n", "a", "l", " ", "h", "e", "l", "p", " ", "t", "o", "p", "i", "c", "s", ":", "\n", "\n">>

txtArgTopic == <<" ", "<", "t", "o", "p", "i", "c", ">">>

txtAboutTopic == <<" ", "f", "o", "r", " ", "m", "o", "r", "e", " ", "i", "n", "f", "o", "r", "m", "a", "t", "i", "o", "n", " ", "a", "b", "o", "u", "t", " ", "t", "h", "a", "t", " ", "t", "o", "p", "i", "c", ".", "\n", "\n">>

\* A child that is listed as a help topic: no Run and no children.
IsTopic(t) == ~Run[t] /\ ~hasChildren(t)

\* The lines "    %-16s %s\n" of help for the names in ns that are (or are
\* not) topics.
RECURSIVE helpList(_, _, _)
helpList(c, ns, topics) ==
    IF ns = <<>> THEN <<>>
    ELSE LET cmd == child(c, ns[1])
         IN (IF cmd = Nil \/ IsTopic(cmd) # topics
             THEN <<>>
             ELSE txtIndent \o PadRight(name(cmd), 16) \o <<" ">> \o Short[cmd] \o txtNL)
            \o helpList(c, Tail(ns), topics)

\* func help(w io.Writer, c *Command): everything it writes on w
helpText(c) ==
    toTitle(Short[c]) \o txtNLNL
    \o (IF Run[c] \/ hasChildren(c) THEN txtUsageHead \o longUsage(c) \o txtNLNL ELSE <<>>)
    \o (IF TrimSpace(Long[c]) # <<>> THEN TrimSpace(Long[c]) \o txtNLNL ELSE <<>>)
    \o (IF ~hasChildren(c) THEN <<>>
        ELSE txtCommandsAre
             \o helpList(c, children(c), FALSE)
             \o txtUse \o Quote(helpPath(c) \o txtArgCommand) \o txtAboutCommand
             \o (IF \A k \in DOMAIN commands[c] : ~IsTopic(commands[c][k]) THEN <<>>
                 ELSE txtTopics
                      \o helpList(c, children(c), TRUE)
                      \o txtUse \o Quote(helpPath(c) \o txtArgTopic) \o txtAboutTopic))

help(w, c) == Write(w, helpText(c))

txtUsageLine == <<"u", "s", "a", "g", "e", ":", " ">>

\* usage printing the line for every Command
usage_Always(c, w) == Write(w, txtUsageLine \o longUsage(c) \o txtNL)

\* func (c *Command) usage(w io.Writer)
usage(c, w) ==
    IF ~Run[c] THEN <<>> ELSE Write(w, txtUsageLine \o longUsage(c) \o txtNL)

(***************************************************************************)
(* Errors                                                                  *)
(***************************************************************************)
\* fmt.Errorf and errors.New: an error that is not a usageError
PlainError(msg) == [kind |-> "error", c |-> Nil, msg |-> msg]

txtColon == <<":", " ">>

\* UsageError with the name of c alone before the message
UsageError_Name(c, msg) == [kind |-> "usageError", c |-> c, msg |-> name(c) \o txtColon \o msg]

\* func (c *Command) UsageError(msg string) error
UsageError(c, msg) == [kind |-> "usageError", c |-> c, msg |-> longName(c) \o txtColon \o msg]

\* errors.Is(err, usageError{})
IsUsageError(err) == err.kind = "usageError"

txtUnknownTopic == <<":", " ", "u", "n", "k", "n", "o", "w", "n", " ", "h", "e", "l", "p", " ", "t", "o", "p", "i", "c", ".", " ", "R", "u", "n", " ">>

\* The unknown help topic of help made with UsageError
unknownTopic_Usage(c, args) ==
    [kind |-> "usageError", c |-> c,
     msg |-> helpPath(c) \o <<" ">> \o Join(args, <<" ">>)
                 \o txtUnknownTopic \o Quote(helpPath(c))]

\* The unknown help topic naming the first argument alone
unknownTopic_First(c, args) ==
    PlainError(helpPath(c) \o <<" ">> \o args[1] \o txtUnknownTopic \o Quote(helpPath(c)))

\* The error of help for a first argument that is no child of c
unknownTopic(c, args) ==
    PlainError(helpPath(c) \o <<" ">> \o Join(args, <<" ">>)
                   \o txtUnknownTopic \o Quote(helpPath(c)))

\* func (c *Command) help(args []string) error
RECURSIVE Command_help(_, _)
Command_help(c, args) ==
    IF Len(args) = 0
    THEN [err |-> NoErr, out |-> help(Stdout(c), c), ran |-> <<>>, fl |-> {}]
    ELSE IF child(c, args[1]) = Nil
    THEN [err |-> unknownTopic(c, args), out |-> <<>>, ran |-> <<>>, fl |-> {}]
    ELSE Command_help(child(c, args[1]), Tail(args))

(***************************************************************************)
(* Execute and Main                                                        *)
(***************************************************************************)
\* What a Run function may return.
Acts == {"nil", "error", "usage"}

txtErrRun == <<"a", "n", " ", "e", "r", "r", "o", "r", " ", "f", "r", "o", "m", " ", "a", " ", "c", "o", "m", "m", "a", "n", "d">>

txtExpecting == <<"e", "x", "p", "e", "c", "t", "i", "n", "g", " ", "a", "r", "g", "u", "m", "e", "n", "t", "s">>

\* c.Run(c, args) returning as act says: nil, errors.New(...) or
\* c.UsageError(...)
RunResult(c, act) ==
    CASE act = "nil" -> NoErr
      [] act = "error" -> PlainError(txtErrRun)
      [] act = "usage" -> UsageError(c, txtExpecting)

\* The error of Run prefixed with the name of c alone
runError_Name(c, e) ==
    IF IsUsageError(e) THEN e
    ELSE IF e # NoErr THEN PlainError(name(c) \o txtColon \o e.msg)
    ELSE NoErr

\* What Execute returns for the error e of c.Run
runError(c, e) ==
    IF IsUsageError(e) THEN e
    ELSE IF e # NoErr THEN PlainError(longName(c) \o txtColon \o e.msg)
    ELSE NoErr

txtUnknownCommand == <<"u", "n", "k", "n", "o", "w", "n", " ", "c", "o", "m", "m", "a", "n", "d">>

txtColonUnknownCommand == <<":", " ", "u", "n", "k", "n", "o", "w", "n", " ", "c", "o", "m", "m", "a", "n", "d">>

\* The request for help answered on Stderr for every Command
helpRequest_Stderr(c) ==
    IF hasChildren(c) \/ ~Run[c] THEN help(Stderr(c), c) ELSE usage(c, Stderr(c))

\* What Execute writes when Parse returns flag.ErrHelp
helpRequest(c) ==
    IF hasChildren(c) THEN help(Stderr(c), c)
    ELSE IF ~Run[c] THEN help(Stdout(c), c)
    ELSE usage(c, Stderr(c))

\* The call of Run without the arguments
callRun_NoArgs(c, args, act) ==
    [err |-> runError(c, RunResult(c, act)),
     out |-> <<>>, ran |-> <<[c |-> c, args |-> <<>>]>>, fl |-> {c}]

\* What Execute does for a Command with Run: err := c.Run(c, args)
callRun(c, args, act) ==
    [err |-> runError(c, RunResult(c, act)),
     out |-> <<>>, ran |-> <<[c |-> c, args |-> args]>>, fl |-> {c}]

\* The help for no arguments written on Stdout
noArgsHelp_Stdout(c) == help(Stdout(c), c)

\* What Execute writes for a Command with children and no arguments left
noArgsHelp(c) == help(Stderr(c), c)

\* The error of child.Execute prefixed with the full name of c
childError_Wrap(c, e) ==
    IF e = NoErr THEN NoErr ELSE [e EXCEPT !.msg = longName(c) \o txtColon \o e.msg]

\* What Execute returns for the error e of child.Execute
childError(c, e) == e

\* func (c *Command) Execute(args []string) error
\* err is the error returned, out the writes in order, ran the Run calls
\* made, fl the Commands whose flags field was set.
RECURSIVE Execute(_, _, _)
Execute(c, args, act) ==
    LET pr == Parse(SetFlags[c], args)
    IN IF pr.help
       THEN [err |-> NoErr, out |-> helpRequest(c), ran |-> <<>>, fl |-> {c}]
       ELSE IF pr.err # <<>>
       THEN [err |-> UsageError(c, pr.err), out |-> <<>>, ran |-> <<>>, fl |-> {c}]
       ELSE IF Run[c]
       THEN callRun(c, pr.args, act)
       ELSE IF ~hasChildren(c)
       THEN [err |-> UsageError(c, txtUnknownCommand), out |-> <<>>, ran |-> <<>>, fl |-> {c}]
       ELSE IF Len(pr.args) = 0
       THEN [err |-> NoErr, out |-> noArgsHelp(c), ran |-> <<>>, fl |-> {c}]
       ELSE IF child(c, pr.args[1]) = Nil
       THEN IF ToLower(pr.args[1]) # txtHelpName
            THEN [err |-> [kind |-> "usageError", c |-> c,
                           msg |-> longName(c) \o <<" ">> \o pr.args[1]
                                       \o txtColonUnknownCommand],
                  out |-> <<>>, ran |-> <<>>, fl |-> {c}]
            ELSE [Command_help(c, Tail(pr.args)) EXCEPT !.fl = {c}]
       ELSE LET r == Execute(child(c, pr.args[1]), Tail(pr.args), act)
            IN [r EXCEPT !.err = childError(c, r.err), !.fl = r.fl \cup {c}]

\* Tokens of the command line.
Tokens == {<<"H", "e", "l", "p">>, <<"C", "m", "d">>, <<"x">>, <<"-", "h">>, <<"-", "z">>}

ArgVecs == UNION {[1..n -> Tokens] : n \in 0..MaxArgs}

\* The Commands that callers call Add, Execute and Main on.
Callers == Nodes \ {"n5"}

\* A call c.Execute(args); Run, if it is called, returns any of Acts.
DoExecute(c, args) ==
    /\ exit = Nil
    /\ last.op = "none"
    /\ \A n \in Nodes : mu[n] = Nil
    /\ nexec < MaxExec
    /\ nexec' = nexec + 1
    /\ \E r0 \in {Execute(c, args, "nil")} :
       \E act \in (IF r0.ran = <<>> THEN {"nil"} ELSE Acts) :
       \E r \in {IF act = "nil" THEN r0 ELSE Execute(c, args, act)} :
               /\ flags' = [n \in Nodes |-> IF n \in r.fl THEN NewFlagSet(n) ELSE flags[n]]
               /\ last' = [NoCall EXCEPT !.op = "Execute", !.c = c, !.args = args,
                                         !.act = act, !.err = r.err, !.out = r.out,
                                         !.ran = r.ran]
    /\ UNCHANGED <<parent, commands, mu, Run, SetFlags, call, stdin, stdout, stderr, nsets, exit, gor>>

txtMainPanic == <<":", " ", "r", "u", "n", "n", "i", "n", "g", " ", "M", "a", "i", "n", " ", "i", "n", " ", "a", " ", "c", "o", "m", "m", "a", "n", "d", " ", "w", "i", "t", "h", " ", "p", "a", "r", "e", "n", "t">>

txtRun == <<"R", "u", "n", " ">>

txtForDetails == <<" ", "f", "o", "r", " ", "d", "e", "t", "a", "i", "l", "s", ".", "\n">>

txtDotNL == <<".", "\n">>

\* func (c *Command) Main(), with args for os.Args[1:]
Main(c, args) ==
    /\ exit = Nil
    /\ last.op = "none"
    /\ \A n \in Nodes : mu[n] = Nil
    /\ nexec < MaxExec
    /\ IF parent[c] # Nil
       THEN /\ last' = [NoCall EXCEPT !.op = "Main", !.c = c, !.args = args,
                            !.panic = txtCommand \o Quote(longName(c)) \o txtMainPanic]
            /\ args = <<>>  \* the panic comes before the arguments are read
            /\ UNCHANGED <<flags, exit, nexec, gor>>
       ELSE \E r0 \in {Execute(c, args, "nil")} :
            \E act \in (IF r0.ran = <<>> THEN {"nil"} ELSE Acts) :
            \E r \in {IF act = "nil" THEN r0 ELSE Execute(c, args, act)} :
                 LET w == Stderr(c)
                     printed ==
                         IF IsUsageError(r.err)
                         THEN Write(w, r.err.msg \o txtNL)
                              \o usage(r.err.c, w)
                              \o Write(w, txtRun \o Quote(helpPath(r.err.c)) \o txtForDetails)
                         ELSE IF r.err # NoErr
                         THEN Write(w, r.err.msg \o txtDotNL)
                         ELSE <<>>
                 IN /\ nexec' = nexec + 1
                    /\ flags' = [n \in Nodes |->
                                    IF n \in r.fl THEN NewFlagSet(n) ELSE flags[n]]
                    /\ exit' = IF r.err # NoErr THEN "1" ELSE Nil
                    /\ last' = [NoCall EXCEPT !.op = "Main", !.c = c, !.args = args,
                                              !.act = act, !.err = r.err,
                                              !.out = r.out \o printed, !.ran = r.ran]
    /\ UNCHANGED <<parent, commands, mu, Run, SetFlags, call, stdin, stdout, stderr, nsets, gor>>

Goroutines == {"g1", "g2"}

\* No call of Execute is under way.
NoFrame == [pc |-> "idle", c |-> Nil, args |-> <<>>, walks |-> <<>>, p |-> Nil]

\* A goroutine that is not in Add and has made n calls.
GoIdle(n) == [pc |-> "idle", c |-> Nil, child |-> Nil, p |-> Nil, why |-> "", panic |-> <<>>,
              calls |-> n]

Init ==
    /\ parent = [n \in Nodes |-> Nil]
    /\ commands = [n \in Nodes |-> EmptyMap]
    /\ mu = [n \in Nodes |-> Nil]
    /\ Run = [n \in Nodes |-> n \in {"n3", "n4"}]
    /\ SetFlags = [n \in Nodes |-> IF n = "n3" THEN {<<"z">>} ELSE {}]
    /\ flags = [n \in Nodes |-> NilFlagSet]
    /\ stdin = [n \in Nodes |-> Nil]
    /\ stdout = [n \in Nodes |-> IF n = "n1" THEN "outbuf" ELSE Nil]
    /\ stderr = [n \in Nodes |-> IF n = "n2" THEN "errbuf" ELSE Nil]
    /\ exit = Nil
    /\ last = NoCall
    /\ nexec = 0
    /\ nsets = 0
    /\ gor = [g \in Goroutines |-> GoIdle(0)]
    /\ call = NoFrame

\* The Commands a caller starts Execute on: the roots of the trees, as the
\* entry point of the process does.
Roots == {c \in Callers : parent[c] = Nil}

\* The caller is between two calls.
Idle == exit = Nil /\ last.op = "none"

Next ==
    \/ Idle /\ \E c \in Callers, kid \in Nodes \cup {Nil} : Add(c, kid)
    \/ Idle /\ \E c \in Roots, args \in ArgVecs : DoExecute(c, args)
    \/ Idle /\ \E c \in Callers, args \in ArgVecs : Main(c, args)
    \/ Return

Spec == Init /\ [][Next]_vars
(***************************************************************************)
(* Add called from several goroutines, one access to shared memory a step  *)
(***************************************************************************)
\* The message of the panic of c.Add(kid) for the reason why.
PanicMsg(c, kid, why) ==
    CASE why = "nil" -> txtCommand \o Quote(longName(c)) \o txtNilCommand
      [] why = "loop" ->
            txtCommand \o Quote(longName(c)) \o txtAdding \o Quote(name(kid)) \o txtLoop
      [] why = "name" -> txtCommand \o Quote(longName(c)) \o txtNoUsage
      [] why = "dup" ->
            txtCommand \o Quote(longName(c)) \o txtAdding \o Quote(name(kid)) \o txtInUse
      [] why = "parent" ->
            txtCommand \o Quote(longName(c)) \o txtAdding \o Quote(name(kid))
                \o txtOtherParent \o Quote(longName(parent[kid]))

\* c.mu.Lock() and the test of a nil child
GoLock(g, c, kid) ==
    /\ gor[g].pc = "idle"
    /\ gor[g].calls < MaxCalls
    /\ mu[c] = Nil
    /\ mu' = [mu EXCEPT ![c] = g]
    /\ gor' = [gor EXCEPT ![g] =
                  IF kid = Nil
                  THEN [gor[g] EXCEPT !.pc = "panic", !.c = c, !.child = kid, !.why = "nil"]
                  ELSE [gor[g] EXCEPT !.pc = "loop", !.c = c, !.child = kid, !.p = c]]
    /\ UNCHANGED <<parent, commands, Run, SetFlags, call, flags, stdin, stdout, stderr, nsets, exit, last,
                   nexec>>

\* One turn of the loop: for p := c; p != nil; p = p.parent
GoLoop(g) ==
    /\ gor[g].pc = "loop"
    /\ gor' = [gor EXCEPT ![g] =
                  IF gor[g].p = Nil THEN [gor[g] EXCEPT !.pc = "check"]
                  ELSE IF gor[g].p = gor[g].child
                  THEN [gor[g] EXCEPT !.pc = "panic", !.why = "loop"]
                  ELSE [gor[g] EXCEPT !.p = parent[gor[g].p]]]
    /\ UNCHANGED <<parent, commands, mu, Run, SetFlags, call, flags, stdin, stdout, stderr, nsets, exit,
                   last, nexec>>

\* The tests of the name, of c.commands[name] and of child.parent
GoCheck(g) ==
    /\ gor[g].pc = "check"
    /\ gor' = [gor EXCEPT ![g] =
                  IF name(gor[g].child) = <<>>
                  THEN [gor[g] EXCEPT !.pc = "panic", !.why = "name"]
                  ELSE IF name(gor[g].child) \in DOMAIN commands[gor[g].c]
                  THEN [gor[g] EXCEPT !.pc = "panic", !.why = "dup"]
                  ELSE IF parent[gor[g].child] # Nil
                  THEN [gor[g] EXCEPT !.pc = "panic", !.why = "parent"]
                  ELSE [gor[g] EXCEPT !.pc = "insert"]]
    /\ UNCHANGED <<parent, commands, mu, Run, SetFlags, call, flags, stdin, stdout, stderr, nsets, exit,
                   last, nexec>>

\* c.commands[name] = child
GoInsert(g) ==
    /\ gor[g].pc = "insert"
    /\ commands' = [commands EXCEPT
                       ![gor[g].c] = MapPut(commands[gor[g].c], name(gor[g].child),
                                            gor[g].child)]
    /\ gor' = [gor EXCEPT ![g].pc = "link"]
    /\ UNCHANGED <<parent, mu, Run, SetFlags, call, flags, stdin, stdout, stderr, nsets, exit, last, nexec>>

\* child.parent = c
GoLink(g) ==
    /\ gor[g].pc = "link"
    /\ parent' = [parent EXCEPT ![gor[g].child] = gor[g].c]
    /\ gor' = [gor EXCEPT ![g].pc = "unlock"]
    /\ UNCHANGED <<commands, mu, Run, SetFlags, call, flags, stdin, stdout, stderr, nsets, exit, last,
                   nexec>>

\* The walk of longName from n never reaches a Command without parent.
Endless(n) == n # Nil /\ Up(n, Cardinality(Nodes)) # Nil

\* panic(msg): the message is formatted, which does not return when the
\* parent references above the Command go round.
GoPanic(g) ==
    /\ gor[g].pc = "panic"
    /\ gor' = [gor EXCEPT ![g] =
                  IF \/ Endless(gor[g].c)
                     \/ gor[g].why = "parent" /\ Endless(parent[gor[g].child])
                  THEN [gor[g] EXCEPT !.pc = "spin"]
                  ELSE [gor[g] EXCEPT !.pc = "unlock",
                                      !.panic = PanicMsg(gor[g].c, gor[g].child, gor[g].why)]]
    /\ UNCHANGED <<parent, commands, mu, Run, SetFlags, call, flags, stdin, stdout, stderr, nsets, exit,
                   last, nexec>>

\* An Unlock that is skipped when Add panics
GoUnlock_NotOnPanic(g) ==
    /\ gor[g].pc = "unlock"
    /\ mu' = [mu EXCEPT ![gor[g].c] = IF gor[g].panic # <<>> THEN g ELSE Nil]
    /\ gor' = [gor EXCEPT ![g] = GoIdle(gor[g].calls + 1)]
    /\ UNCHANGED <<parent, commands, Run, SetFlags, call, flags, stdin, stdout, stderr, nsets, exit, last,
                   nexec>>

\* The deferred c.mu.Unlock(); the caller recovers a panic.
GoUnlock(g) ==
    /\ gor[g].pc = "unlock"
    /\ mu' = [mu EXCEPT ![gor[g].c] = Nil]
    /\ gor' = [gor EXCEPT ![g] = GoIdle(gor[g].calls + 1)]
    /\ UNCHANGED <<parent, commands, Run, SetFlags, call, flags, stdin, stdout, stderr, nsets, exit, last,
                   nexec>>

NextConc ==
    \/ \E g \in Goroutines, c \in Callers, kid \in Nodes \cup {Nil} : GoLock(g, c, kid)
    \/ \E g \in Goroutines : GoLoop(g)
    \/ \E g \in Goroutines : GoCheck(g)
    \/ \E g \in Goroutines : GoInsert(g)
    \/ \E g \in Goroutines : GoLink(g)
    \/ \E g \in Goroutines : GoPanic(g)
    \/ \E g \in Goroutines : GoUnlock(g)

SpecConc == Init /\ [][NextConc]_vars


(***************************************************************************)
(* Properties of Add                                                       *)
(***************************************************************************)
HasSuffix(s, t) == Len(s) >= Len(t) /\ SubSeq(s, Len(s) - Len(t) + 1, Len(s)) = t

HasPrefix(s, t) == Len(s) >= Len(t) /\ SubSeq(s, 1, Len(t)) = t

\* n and the Commands above it.
ChainOf(n) == {Up(n, k) : k \in 0..Cardinality(Nodes)} \ {Nil}

\* The number of Commands above n.
Depth(n) == Cardinality({k \in 1..Cardinality(Nodes) : Up(n, k) # Nil})

\* The lower-cased first word of the usage of n.
FirstWords ==
    [n \in Nodes |->
        IF \A i \in 1..Len(Usage[n]) : IsSpace(Usage[n][i])
        THEN <<>>
        ELSE ToLower(Fields(Usage[n])[1])]

FirstWordLower(n) == FirstWords[n]

\* The names from the root down to n, joined by spaces.
FullPath(n) ==
    Join([i \in 1..(Depth(n) + 1) |-> FirstWordLower(Up(n, Depth(n) + 1 - i))], <<" ">>)

\* The step is a call c.Add(kid) by an idle caller.
AddStep(c, kid) == Idle /\ last'.op = "Add" /\ last'.c = c /\ last'.child = kid

NoCycle == \A n \in Nodes : \A k \in 1..Cardinality(Nodes) : Up(n, k) # n

\* C1: after any sequence of Add calls the parent relation has no cycle, and
\* c.Add(kid) panics with "adding a command to itself or its children", leaving
\* the tree as it was, whenever kid is c or a Command above c at any depth.
C1_Acyclic ==
    /\ []NoCycle
    /\ [][LET c == last'.c  kid == last'.child IN
            AddStep(c, kid) /\ kid \in Nodes /\ kid \in ChainOf(c)
                => /\ HasSuffix(last'.panic, txtAdding \o Quote(FirstWordLower(kid)) \o txtLoop)
                   /\ UNCHANGED <<parent, commands>>]_vars

\* An Add of the grandparent (or higher) of the receiver has panicked.
C1_Witness ==
    /\ last.op = "Add"
    /\ last.child # Nil
    /\ parent[last.c] # Nil
    /\ parent[last.c] # last.child
    /\ last.child \in ChainOf(last.c)
    /\ last.panic # <<>>

KeyedByLowerName ==
    \A p \in Nodes :
        /\ \A k \in DOMAIN commands[p] : k = FirstWordLower(commands[p][k])
        /\ \A x, y \in Nodes :
              parent[x] = p /\ parent[y] = p /\ x # y
                  => FirstWordLower(x) # FirstWordLower(y)

\* c has a child whose lower-cased name is that of kid.
NameTaken(c, kid) ==
    \E e \in Nodes : parent[e] = c /\ FirstWordLower(e) = FirstWordLower(kid)

\* x is a value of the children map of p.
InMap(p, x) == \E k \in DOMAIN commands[p] : commands[p][k] = x

\* C2: whenever no goroutine is inside Add, after any interleaving of their
\* calls, the parent relation has no cycle, every Command is in the children
\* map of at most one Command, and x is in the children map of p exactly
\* when the parent of x is p.
C2_Original ==
    (\A g \in Goroutines : gor[g].pc = "idle")
        => /\ NoCycle
           /\ \A x, p, q \in Nodes : InMap(p, x) /\ InMap(q, x) => p = q
           /\ \A x, p \in Nodes : InMap(p, x) <=> parent[x] = p

\* C3 (as stated): the children of one parent have distinct lower-cased
\* names, the map is keyed by them, and c.Add(kid) panics with "command name
\* already in use" whenever c has a child with the lower-cased name of kid.
C3_Original ==
    /\ []KeyedByLowerName
    /\ [][LET c == last'.c  kid == last'.child IN
            AddStep(c, kid) /\ kid \in Nodes /\ kid # c /\ NameTaken(c, kid)
                => HasSuffix(last'.panic,
                             txtAdding \o Quote(FirstWordLower(kid)) \o txtInUse)]_vars

\* C3 (amended): as above, for a kid that is not c nor a Command above c.
C3_UniqueNames ==
    /\ []KeyedByLowerName
    /\ [][LET c == last'.c  kid == last'.child IN
            AddStep(c, kid) /\ kid \in Nodes /\ NameTaken(c, kid) /\ kid \notin ChainOf(c)
                => /\ HasSuffix(last'.panic,
                                txtAdding \o Quote(FirstWordLower(kid)) \o txtInUse)
                   /\ UNCHANGED <<parent, commands>>]_vars

\* A Command whose usage differs in case from that of a child has been
\* refused for its name.
C3_Witness ==
    /\ last.op = "Add"
    /\ HasSuffix(last.panic, txtInUse)
    /\ \E e \in Nodes :
          /\ parent[e] = last.c
          /\ e # last.child
          /\ Fields(Usage[e])[1] # Fields(Usage[last.child])[1]
          /\ FirstWordLower(e) = FirstWordLower(last.child)

ParentIsForLife == [][\A n \in Nodes : parent[n] # Nil => parent'[n] = parent[n]]_vars

OtherParentPanic(kid) == txtOtherParent \o Quote(FullPath(parent[kid]))

\* C4 (as stated): a parent reference that is set never changes, no Add of a
\* Command that has a parent succeeds, and adding it to another parent where
\* its name is free panics with "command has another parent" and the full
\* path of the parent it has.
C4_Original ==
    /\ ParentIsForLife
    /\ [][LET c == last'.c  kid == last'.child IN
            AddStep(c, kid) /\ kid \in Nodes /\ parent[kid] # Nil
                => /\ last'.panic # <<>>
                   /\ (parent[kid] # c /\ kid # c /\ ~NameTaken(c, kid)
                          => HasSuffix(last'.panic, OtherParentPanic(kid)))]_vars

\* C4 (amended): as above, the message being that of "command has another
\* parent" when the other parent is not the Command itself nor below it.
C4_OneParent ==
    /\ ParentIsForLife
    /\ [][LET c == last'.c  kid == last'.child IN
            AddStep(c, kid) /\ kid \in Nodes /\ parent[kid] # Nil
                => /\ last'.panic # <<>>
                   /\ UNCHANGED <<parent, commands>>
                   /\ (parent[kid] # c /\ ~NameTaken(c, kid) /\ kid \notin ChainOf(c)
                          => HasSuffix(last'.panic, OtherParentPanic(kid)))]_vars

\* A Command whose parent is itself a child has been refused by another
\* parent where its name is free.
C4_Witness ==
    /\ last.op = "Add"
    /\ last.child # Nil
    /\ parent[last.child] \notin {Nil, last.c}
    /\ parent[parent[last.child]] # Nil
    /\ HasSuffix(last.panic, OtherParentPanic(last.child))

\* The first precondition of c.Add(kid) that is violated, in the order nil
\* child, cycle, missing name, name in use, other parent.
FirstViolated(c, kid) ==
    CASE kid = Nil -> "nil"
      [] kid # Nil /\ kid \in ChainOf(c) -> "cycle"
      [] kid # Nil /\ kid \notin ChainOf(c) /\ FirstWordLower(kid) = <<>> -> "name"
      [] kid # Nil /\ kid \notin ChainOf(c) /\ FirstWordLower(kid) # <<>>
             /\ NameTaken(c, kid) -> "dup"
      [] kid # Nil /\ kid \notin ChainOf(c) /\ FirstWordLower(kid) # <<>>
             /\ ~NameTaken(c, kid) /\ parent[kid] # Nil -> "parent"
      [] OTHER -> "ok"

\* The failures a panic message of Add reports.
Reported(msg) ==
    {k \in {"nil", "cycle", "name", "dup", "parent"} :
        \/ k = "nil" /\ HasSuffix(msg, txtNilCommand)
        \/ k = "cycle" /\ HasSuffix(msg, txtLoop)
        \/ k = "name" /\ HasSuffix(msg, txtNoUsage)
        \/ k = "dup" /\ HasSuffix(msg, txtInUse)
        \/ k = "parent" /\ \E i \in 1..Len(msg) :
                              HasPrefix(SubSeq(msg, i, Len(msg)), txtOtherParent)}

\* C5: c.Add(kid) succeeds exactly when no precondition is violated, and
\* otherwise reports exactly one failure, the first violated one in the order
\* nil child, cycle, missing name, name in use, other parent.
C5_FirstFailure ==
    [][LET c == last'.c  kid == last'.child IN
          AddStep(c, kid)
              => IF FirstViolated(c, kid) = "ok"
                 THEN last'.panic = <<>> /\ parent'[kid] = c
                 ELSE /\ Reported(last'.panic) = {FirstViolated(c, kid)}
                      /\ UNCHANGED <<parent, commands>>]_vars

\* A Command that has another parent and whose name is in use has been
\* refused for its name.
C5_Witness ==
    /\ last.op = "Add"
    /\ last.child # Nil
    /\ parent[last.child] \notin {Nil, last.c}
    /\ Reported(last.panic) = {"dup"}

\* C6: a successful c.Add(kid) adds the entry (lower-cased name of kid -> kid)
\* to the children of c and makes c the parent of kid; the other entries of
\* c, the children and parent of every other Command, the parent of c, the
\* children of kid, the stdio overrides, Run, SetFlags and the flags stay.
C6_AddFrame ==
    [][LET c == last'.c  kid == last'.child IN
          AddStep(c, kid) /\ kid \in Nodes /\ last'.panic = <<>>
              => /\ DOMAIN commands'[c] = DOMAIN commands[c] \cup {FirstWordLower(kid)}
                 /\ FirstWordLower(kid) \notin DOMAIN commands[c]
                 /\ commands'[c][FirstWordLower(kid)] = kid
                 /\ \A k \in DOMAIN commands[c] : commands'[c][k] = commands[c][k]
                 /\ \A n \in Nodes \ {c} : commands'[n] = commands[n]
                 /\ parent'[kid] = c
                 /\ \A n \in Nodes \ {kid} : parent'[n] = parent[n]
                 /\ UNCHANGED <<Run, SetFlags, call, flags, stdin, stdout, stderr, nsets, mu>>]_vars

\* A Command has been added to a parent that had a child, after an Execute
\* that left flags behind.
C6_Witness ==
    /\ last.op = "Add"
    /\ last.panic = <<>>
    /\ Cardinality(DOMAIN commands[last.c]) >= 2
    /\ \E n \in Nodes : ~flags[n].nil

(***************************************************************************)
(* Properties of Execute and Main                                          *)
(***************************************************************************)
\* The step is a call c.Execute(args) by an idle caller.
ExecuteStep(c, args) == Idle /\ last'.op = "Execute" /\ last'.c = c /\ last'.args = args

\* The step is a call c.Main() with the command line args.
MainStep(c, args) == Idle /\ last'.op = "Main" /\ last'.c = c /\ last'.args = args

HasInfix(s, t) == \E i \in 1..Len(s) : HasPrefix(SubSeq(s, i, Len(s)), t)

HasChild(c) == \E e \in Nodes : parent[e] = c

\* C7: Execute of a Command without Run and with a child, whose first
\* argument is help in any case, returns what the interactive help of that
\* Command returns for the other arguments and writes what it writes,
\* whatever the children are.
C7_Original ==
    [][LET c == last'.c  args == last'.args IN
          /\ ExecuteStep(c, args)
          /\ ~Run[c]
          /\ HasChild(c)
          /\ args # <<>>
          /\ ToLower(args[1]) = txtHelpName
          => /\ last'.err = Command_help(c, Tail(args)).err
             /\ last'.out = Command_help(c, Tail(args)).out
             /\ last'.ran = <<>>]_vars

IsUnknownTopic(err) == HasInfix(err.msg, txtUnknownTopic)

\* C8 (as stated): every unknown help topic that Execute returns is a usage
\* error of one Command.
C8_Original ==
    [][LET c == last'.c  args == last'.args IN
          ExecuteStep(c, args) /\ IsUnknownTopic(last'.err)
              => IsUsageError(last'.err) /\ last'.err.c \in Nodes]_vars

\* C8 (amended): every unknown help topic that Execute returns is an error
\* that is not a usage error and carries no Command; the errors of flag
\* parsing and of an unknown command are usage errors of one Command, whose
\* full path their message begins with.
C8_UnknownTopicIsPlain ==
    [][LET c == last'.c  args == last'.args IN
          ExecuteStep(c, args)
              => /\ IsUnknownTopic(last'.err)
                    => /\ ~IsUsageError(last'.err)
                       /\ last'.err.kind = "error"
                       /\ last'.err.c = Nil
                 /\ \/ HasInfix(last'.err.msg, txtNotDefined)
                    \/ HasSuffix(last'.err.msg, txtColonUnknownCommand)
                    => /\ IsUsageError(last'.err)
                       /\ last'.err.c \in Nodes
                       /\ HasPrefix(last'.err.msg, FullPath(last'.err.c))]_vars

\* An Execute of help with a topic that no child has has returned.
C8_Witness ==
    /\ last.op = "Execute"
    /\ Len(last.args) = 2
    /\ ToLower(last.args[1]) = txtHelpName
    /\ IsUnknownTopic(last.err)
    /\ HasChild(last.c)

\* The usage line of n: the names above n and the usage of n.
UsageLine(n) ==
    txtUsageLine
    \o Join([i \in 1..(Depth(n) + 1) |->
                IF i = Depth(n) + 1 THEN Usage[n]
                ELSE FirstWordLower(Up(n, Depth(n) + 1 - i))], <<" ">>)
    \o txtNL

\* The hint that Main prints for n.
Hint(n) ==
    LET path == [i \in 1..(Depth(n) + 1) |-> FirstWordLower(Up(n, Depth(n) + 1 - i))]
    IN txtRun \o Quote(Join(<<path[1], txtHelpName>> \o Tail(path), <<" ">>)) \o txtForDetails

Texts(out) == [i \in 1..Len(out) |-> out[i].s]

\* C9 (as stated): for a usage error of any Command, Main prints the
\* message, the usage line of that Command and the hint, and exits with
\* status 1; for another error it prints the message and a period and exits
\* with status 1; without error it does not exit.
C9_Original ==
    [][LET c == last'.c  args == last'.args IN
          MainStep(c, args) /\ parent[c] = Nil
              => IF IsUsageError(last'.err)
                 THEN /\ Texts(last'.out) = <<last'.err.msg \o txtNL, UsageLine(last'.err.c),
                                             Hint(last'.err.c)>>
                      /\ exit' = "1"
                 ELSE IF last'.err # NoErr
                 THEN /\ Texts(last'.out) = <<last'.err.msg \o txtDotNL>>
                      /\ exit' = "1"
                 ELSE exit' = Nil]_vars

\* C9 (amended): as above, the usage line being printed only when the
\* Command the usage error comes from has a Run function; for a Command
\* without Run, Main prints the message and the hint.
C9_MainReport ==
    [][LET c == last'.c  args == last'.args IN
          MainStep(c, args) /\ parent[c] = Nil
              => IF IsUsageError(last'.err)
                 THEN /\ Texts(last'.out) =
                            IF Run[last'.err.c]
                            THEN <<last'.err.msg \o txtNL, UsageLine(last'.err.c),
                                   Hint(last'.err.c)>>
                            ELSE <<last'.err.msg \o txtNL, Hint(last'.err.c)>>
                      /\ \A i \in 1..Len(last'.out) : last'.out[i].w = Stderr(c)
                      /\ exit' = "1"
                 ELSE IF last'.err # NoErr
                 THEN /\ Texts(last'.out) = <<last'.err.msg \o txtDotNL>>
                      /\ exit' = "1"
                 ELSE exit' = Nil]_vars

\* Main has reported the usage error of a Command without Run that is below
\* the root, and the process has exited.
C9_Witness ==
    /\ last.op = "Main"
    /\ IsUsageError(last.err)
    /\ ~Run[last.err.c]
    /\ last.err.c # last.c
    /\ Len(last.out) = 2
    /\ exit = "1"

\* C10: when the Run of a Command that Execute of the root dispatches to
\* returns an error that is not a usage error, Execute of the root returns
\* an error whose message is the full path of that Command, a colon and the
\* message of Run.
C10_RunErrorPath ==
    [][LET c == last'.c  args == last'.args IN
          ExecuteStep(c, args) /\ parent[c] = Nil /\ last'.act = "error"
              => /\ Len(last'.ran) = 1
                 /\ last'.err.kind = "error"
                 /\ ~IsUsageError(last'.err)
                 /\ last'.err.msg = FullPath(last'.ran[1].c) \o txtColon \o txtErrRun]_vars

\* The Run of a Command two levels below the root has returned an error.
C10_Witness ==
    /\ last.op = "Execute"
    /\ last.act = "error"
    /\ Len(last.ran) = 1
    /\ Depth(last.ran[1].c) = 2
    /\ Up(last.ran[1].c, 2) = last.c
    /\ last.err # NoErr

(***************************************************************************)
(* Properties of the errors of Execute                                     *)
(***************************************************************************)
\* The children of c that the token tok names.
ChildNamed(c, tok) ==
    {e \in Nodes : parent[e] = c /\ ToLower(tok) # <<>> /\ FirstWordLower(e) = ToLower(tok)}

\* The Commands that c.Execute(args) calls Execute on, from c down, each
\* with the arguments it gets.
RECURSIVE Levels(_, _)
Levels(c, args) ==
    LET pr == Parse(SetFlags[c], args)
    IN IF pr.help \/ pr.err # <<>> \/ Run[c] \/ pr.args = <<>>
          \/ ChildNamed(c, pr.args[1]) = {}
       THEN <<[c |-> c, args |-> args]>>
       ELSE <<[c |-> c, args |-> args]>>
            \o Levels(CHOOSE e \in ChildNamed(c, pr.args[1]) : TRUE, Tail(pr.args))

\* The last of the Commands that c.Execute(args) calls Execute on.
Reached(c, args) == LET L == Levels(c, args) IN L[Len(L)]

\* C11: a usage error that Execute returns comes from the last Command that
\* the call reaches; its message begins with the full path of that Command,
\* and the Execute of every Command between the receiver and that one
\* returns the same error, with the same message and the same Command.
C11_UsageErrorUnchanged ==
    [][LET c == last'.c  args == last'.args IN
          ExecuteStep(c, args) /\ IsUsageError(last'.err)
              => \A L \in {Levels(c, args)} :
                 \A n \in {L[Len(L)].c} :
                    /\ last'.err.c = n
                    /\ HasPrefix(last'.err.msg, FullPath(n) \o <<":">>)
                          \/ HasPrefix(last'.err.msg, FullPath(n) \o <<" ">>)
                    /\ \A i \in 1..Len(L) :
                          Execute(L[i].c, L[i].args, last'.act).err = last'.err]_vars

\* Execute has returned the usage error of a flag that a Command below the
\* receiver does not define.
C11_Witness ==
    /\ last.op = "Execute"
    /\ IsUsageError(last.err)
    /\ last.err.c # last.c
    /\ parent[last.err.c] = last.c
    /\ HasInfix(last.err.msg, txtNotDefined)

\* What the step has recorded of the call: its error, writes and Run calls.
Recorded == [err |-> last'.err, out |-> last'.out, ran |-> last'.ran]

\* C12: at every Command without Run and with children that the call
\* reaches with a first argument after the flags, a first argument that is
\* not help and names no child gives the usage error "<full path> <argument>:
\* unknown command" of that Command and no Run; one that names a child gives
\* what Execute of that child returns, writes and runs for the arguments
\* after it.
C12_Dispatch ==
    [][LET c == last'.c  args == last'.args IN
          ExecuteStep(c, args)
              => \A L \in {Levels(c, args)} :
                 \A i \in 1..Len(L) :
                 \A n \in {L[i].c} :
                 \A pr \in {Parse(SetFlags[n], L[i].args)} :
                 \A r \in {IF i = 1 THEN Recorded ELSE Execute(n, L[i].args, last'.act)} :
                      ~Run[n] /\ HasChild(n) /\ ~pr.help /\ pr.err = <<>> /\ pr.args # <<>>
                           => IF ChildNamed(n, pr.args[1]) # {}
                              THEN /\ i < Len(L)
                                   /\ L[i + 1].c \in ChildNamed(n, pr.args[1])
                                   /\ \A q \in {Execute(L[i + 1].c, Tail(pr.args), last'.act)} :
                                         r.err = q.err /\ r.out = q.out /\ r.ran = q.ran
                              ELSE ToLower(pr.args[1]) # txtHelpName
                                     => /\ r.err = [kind |-> "usageError", c |-> n,
                                                    msg |-> FullPath(n) \o <<" ">> \o pr.args[1]
                                                                \o txtColonUnknownCommand]
                                        /\ r.ran = <<>>
                                        /\ r.out = <<>>]_vars

\* Execute has dispatched to a child named in another case, and the child
\* has returned the unknown command error of its own first argument.
C12_Witness ==
    /\ last.op = "Execute"
    /\ Len(last.args) = 2
    /\ IsUsageError(last.err)
    /\ parent[last.err.c] = last.c
    /\ last.args[1] # FirstWordLower(last.err.c)
    /\ last.err.msg = FullPath(last.err.c) \o <<" ">> \o last.args[2] \o txtColonUnknownCommand

\* The usage error "<full path of n>: unknown command" of n.
UnknownCommandOf(n) ==
    [kind |-> "usageError", c |-> n, msg |-> FullPath(n) \o txtColonUnknownCommand]

\* C13 (as stated): at every Command without Run and without children that
\* the call reaches with arguments whose flags do not ask for help, Execute
\* returns the usage error "<full path>: unknown command" of that Command,
\* whatever the arguments are.
C13_Original ==
    [][LET c == last'.c  args == last'.args IN
          ExecuteStep(c, args)
              => \A L \in {Levels(c, args)} :
                 \A i \in 1..Len(L) :
                 \A n \in {L[i].c} :
                 \A pr \in {Parse(SetFlags[n], L[i].args)} :
                 \A r \in {IF i = 1 THEN Recorded ELSE Execute(n, L[i].args, last'.act)} :
                      ~Run[n] /\ ~HasChild(n) /\ ~pr.help
                           => r.err = UnknownCommandOf(n)]_vars

\* C13 (amended): as above for arguments whose flags parse without error;
\* nothing is written and no Run is called, whether there are no arguments
\* left or the first is help.
C13_TopicUnknownCommand ==
    [][LET c == last'.c  args == last'.args IN
          ExecuteStep(c, args)
              => \A L \in {Levels(c, args)} :
                 \A i \in 1..Len(L) :
                 \A n \in {L[i].c} :
                 \A pr \in {Parse(SetFlags[n], L[i].args)} :
                 \A r \in {IF i = 1 THEN Recorded ELSE Execute(n, L[i].args, last'.act)} :
                      ~Run[n] /\ ~HasChild(n) /\ ~pr.help /\ pr.err = <<>>
                           => /\ r.err = UnknownCommandOf(n)
                              /\ r.out = <<>>
                              /\ r.ran = <<>>]_vars

\* Execute of a child without Run and without children, with help as its
\* first argument, has returned unknown command.
C13_Witness ==
    /\ last.op = "Execute"
    /\ Len(last.args) = 2
    /\ ToLower(last.args[2]) = txtHelpName
    /\ last.err.c \in Nodes
    /\ parent[last.err.c] = last.c
    /\ ~Run[last.err.c] /\ ~HasChild(last.err.c)
    /\ last.err = UnknownCommandOf(last.err.c)

\* C14: at every Command that the call reaches with arguments whose flags
\* fail to parse for another reason than a request for help, Execute returns
\* the usage error "<full path>: <message of the parser>" of that Command,
\* calls no Run, writes nothing and calls Execute on no other Command.
C14_ParseError ==
    [][LET c == last'.c  args == last'.args IN
          ExecuteStep(c, args)
              => \A L \in {Levels(c, args)} :
                 \A i \in 1..Len(L) :
                 \A n \in {L[i].c} :
                 \A pr \in {Parse(SetFlags[n], L[i].args)} :
                 \A r \in {Execute(n, L[i].args, last'.act)} :
                      ~pr.help /\ pr.err # <<>>
                           => /\ r.err = [kind |-> "usageError", c |-> n,
                                          msg |-> FullPath(n) \o txtColon \o pr.err]
                              /\ r.ran = <<>>
                              /\ r.out = <<>>
                              /\ r.fl = {n}
                              /\ i = Len(L)
                              /\ last'.err = r.err /\ last'.ran = <<>> /\ last'.out = <<>>
                              /\ \A m \in Nodes :
                                    flags'[m] # flags[m] => \E j \in 1..Len(L) : L[j].c = m]_vars

\* Execute of a child with Run has returned the usage error of a flag that
\* the child does not define, and no Run has been called.
C14_Witness ==
    /\ last.op = "Execute"
    /\ IsUsageError(last.err)
    /\ parent[last.err.c] = last.c
    /\ Run[last.err.c]
    /\ last.ran = <<>>
    /\ HasSuffix(last.err.msg, txtColon \o txtNotDefined \o <<"z">>)
    /\ ~flags[last.err.c].nil

(***************************************************************************)
(* Properties of help and of the streams                                   *)
(***************************************************************************)
\* The stream of n by the overrides f: that of the nearest of n and the
\* Commands above it that has one, or else dflt.
Effective(f, n, dflt) ==
    LET set == {k \in 0..Depth(n) : f[Up(n, k)] # Nil}
    IN IF set = {} THEN dflt
       ELSE f[Up(n, CHOOSE k \in set : \A j \in set : k <= j)]

\* C15: at every Command that the call reaches with arguments whose flags
\* ask for help, Execute returns no error, calls no Run, calls Execute on no
\* child and writes one text: the help of the Command on its error stream
\* when it has children, else the help on its output stream when it has no
\* Run, else the usage line on its error stream.
C15_HelpRequest ==
    [][LET c == last'.c  args == last'.args IN
          ExecuteStep(c, args)
              => \A L \in {Levels(c, args)} :
                 \A i \in 1..Len(L) :
                 \A n \in {L[i].c} :
                 \A pr \in {Parse(SetFlags[n], L[i].args)} :
                 \A r \in {Execute(n, L[i].args, last'.act)} :
                 \A errw \in {Effective(stderr, n, "os.Stderr")} :
                 \A outw \in {Effective(stdout, n, "os.Stdout")} :
                      pr.help
                           => /\ r.err = NoErr /\ r.ran = <<>> /\ r.fl = {n}
                              /\ i = Len(L)
                              /\ r.out = IF HasChild(n)
                                         THEN <<[w |-> errw, s |-> helpText(n)]>>
                                         ELSE IF ~Run[n]
                                         THEN <<[w |-> outw, s |-> helpText(n)]>>
                                         ELSE <<[w |-> errw, s |-> UsageLine(n)]>>
                              /\ last'.err = NoErr /\ last'.ran = <<>> /\ last'.out = r.out]_vars

\* Execute of a child without Run and without children has answered -h
\* with its help on the output stream set on its parent.
C15_Witness ==
    /\ last.op = "Execute"
    /\ Len(last.args) = 2
    /\ last.args[2] = <<"-", "h">>
    /\ last.err = NoErr
    /\ Len(last.out) = 1
    /\ last.out[1].w = "outbuf"
    /\ \E n \in Nodes :
          /\ parent[n] = last.c /\ ~Run[n] /\ ~HasChild(n)
          /\ stdout[n] = Nil
          /\ last.out[1].s = helpText(n)

\* C16: at every Command without Run and with children that the call
\* reaches, Execute with no argument left after the flags writes the help of
\* the Command on its error stream and nothing else, and returns no error;
\* with the one argument help, which the help method of the Command gets
\* when no child bears that name, it writes the same text on the output
\* stream of the Command instead.
C16_NoArgsHelp ==
    [][LET c == last'.c  args == last'.args IN
          ExecuteStep(c, args)
              => \A L \in {Levels(c, args)} :
                 \A i \in 1..Len(L) :
                 \A n \in {L[i].c} :
                 \A pr \in {Parse(SetFlags[n], L[i].args)} :
                 \A r \in {IF i = 1 THEN Recorded ELSE Execute(n, L[i].args, last'.act)} :
                 \A errw \in {Effective(stderr, n, "os.Stderr")} :
                 \A outw \in {Effective(stdout, n, "os.Stdout")} :
                      ~Run[n] /\ HasChild(n) /\ ~pr.help /\ pr.err = <<>>
                           => /\ pr.args = <<>>
                                 => /\ r.err = NoErr /\ r.ran = <<>>
                                    /\ r.out = <<[w |-> errw, s |-> helpText(n)]>>
                              /\ (/\ Len(pr.args) = 1
                                  /\ ToLower(pr.args[1]) = txtHelpName
                                  /\ ChildNamed(n, pr.args[1]) = {})
                                 => /\ r.err = NoErr /\ r.ran = <<>>
                                    /\ r.out = <<[w |-> outw, s |-> helpText(n)]>>]_vars

\* Execute of a child without Run that has children, with no argument
\* left, has written the help of the child on the error stream set on it,
\* which is not that of its parent.
C16_Witness ==
    /\ last.op = "Execute"
    /\ Len(last.args) = 1
    /\ last.err = NoErr
    /\ Len(last.out) = 1
    /\ \E n \in Nodes :
          /\ parent[n] = last.c /\ ~Run[n] /\ HasChild(n)
          /\ stderr[n] # Nil /\ stderr[last.c] = Nil
          /\ last.out[1] = [w |-> stderr[n], s |-> helpText(n)]

\* The help token and the topics that follow it on the command line.
tokHelp == <<"H", "e", "l", "p">>

Topics == {<<"C", "m", "d">>, <<"H", "e", "l", "p">>, <<"x">>}

TopicVecs == UNION {[1..n -> Topics] : n \in 0..MaxTopics}

\* The callers build trees and ask the roots for help on vectors of topics.
NextHelp ==
    \/ Idle /\ \E c \in Callers, kid \in Nodes \cup {Nil} : Add(c, kid)
    \/ Idle /\ \E c \in Roots, t \in TopicVecs : DoExecute(c, <<tokHelp>> \o t)
    \/ Return

SpecHelp == Init /\ [][NextHelp]_vars

\* The names from the root down to n with help after the first, joined by
\* spaces.
HelpPathOf(n) ==
    LET path == [i \in 1..(Depth(n) + 1) |-> FirstWordLower(Up(n, Depth(n) + 1 - i))]
    IN Join(<<path[1], txtHelpName>> \o Tail(path), <<" ">>)

\* The descent of help from n along the tokens toks: m is the Command
\* reached and rest the tokens from the first that names no child of m.
RECURSIVE HelpDescend(_, _)
HelpDescend(n, toks) ==
    IF toks = <<>> \/ ChildNamed(n, toks[1]) = {}
    THEN [m |-> n, rest |-> toks]
    ELSE HelpDescend(CHOOSE e \in ChildNamed(n, toks[1]) : TRUE, Tail(toks))

\* C17: when Execute hands the arguments after the help token to the help
\* of a Command n, help goes down the tree matching each token to a child
\* whatever the case; when every token matches it writes the help of the
\* Command reached on the output stream of that Command and returns no
\* error; else it returns the error "<help path of m> <the tokens from the
\* unmatched one on, joined by spaces>: unknown help topic. Run "<help path
\* of m>"" for the Command m reached, and writes nothing.
C17_InteractiveHelp ==
    [][LET c == last'.c  args == last'.args IN
          ExecuteStep(c, args)
              => \A at \in {Reached(c, args)} :
                 \A pr \in {Parse(SetFlags[at.c], at.args)} :
                    (/\ ~Run[at.c] /\ HasChild(at.c) /\ ~pr.help /\ pr.err = <<>>
                     /\ pr.args # <<>>
                     /\ ToLower(pr.args[1]) = txtHelpName
                     /\ ChildNamed(at.c, pr.args[1]) = {})
                      => \A d \in {HelpDescend(at.c, Tail(pr.args))} :
                         \A hp \in {HelpPathOf(d.m)} :
                            /\ last'.ran = <<>>
                            /\ IF d.rest = <<>>
                               THEN /\ last'.err = NoErr
                                    /\ last'.out =
                                         <<[w |-> Effective(stdout, d.m, "os.Stdout"),
                                            s |-> helpText(d.m)]>>
                               ELSE /\ last'.err.msg =
                                         hp \o <<" ">> \o Join(d.rest, <<" ">>)
                                            \o txtUnknownTopic \o Quote(hp)
                                    /\ last'.err # NoErr
                                    /\ last'.out = <<>>]_vars

\* help has gone down to a child of the root and has failed there on the
\* first of two more tokens.
C17_Witness ==
    /\ last.op = "Execute"
    /\ Len(last.args) = 4
    /\ ToLower(last.args[1]) = txtHelpName
    /\ \E m \in Nodes :
          /\ parent[m] = last.c
          /\ FirstWordLower(m) = ToLower(last.args[2])
          /\ last.err.msg = HelpPathOf(m) \o <<" ">> \o last.args[3] \o <<" ">> \o last.args[4]
                                \o txtUnknownTopic \o Quote(HelpPathOf(m))

\* What the callers hand to the Set functions: a buffer, or nil.
Streams == {"buf", Nil}

\* func (c *Command) SetStderr(w io.Writer)
SetStderr(c, w) ==
    /\ Idle
    /\ nsets < MaxSets
    /\ nsets' = nsets + 1
    /\ stderr' = [stderr EXCEPT ![c] = w]
    /\ last' = [NoCall EXCEPT !.op = "SetStderr", !.c = c]
    /\ UNCHANGED <<parent, commands, mu, Run, SetFlags, call, flags, stdin, stdout, exit, nexec, gor>>

\* func (c *Command) SetStdin(r io.Reader)
SetStdin(c, r) ==
    /\ Idle
    /\ nsets < MaxSets
    /\ nsets' = nsets + 1
    /\ stdin' = [stdin EXCEPT ![c] = r]
    /\ last' = [NoCall EXCEPT !.op = "SetStdin", !.c = c]
    /\ UNCHANGED <<parent, commands, mu, Run, SetFlags, call, flags, stdout, stderr, exit, nexec, gor>>

\* func (c *Command) SetStdout(w io.Writer)
SetStdout(c, w) ==
    /\ Idle
    /\ nsets < MaxSets
    /\ nsets' = nsets + 1
    /\ stdout' = [stdout EXCEPT ![c] = w]
    /\ last' = [NoCall EXCEPT !.op = "SetStdout", !.c = c]
    /\ UNCHANGED <<parent, commands, mu, Run, SetFlags, call, flags, stdin, stderr, exit, nexec, gor>>

\* The callers build trees and redirect the streams of the Commands.
NextStreams ==
    \/ Idle /\ \E c \in Callers, kid \in Nodes \cup {Nil} : Add(c, kid)
    \/ \E c \in Callers, w \in Streams : SetStderr(c, w)
    \/ \E c \in Callers, r \in Streams : SetStdin(c, r)
    \/ \E c \in Callers, w \in Streams : SetStdout(c, w)
    \/ Return

SpecStreams == Init /\ [][NextStreams]_vars

\* Stderr, Stdin and Stdout return for every Command the stream of the
\* nearest of the Command and those above it that has one set, or else the
\* stream of the process.
Resolved ==
    \A n \in Nodes :
        /\ Stderr(n) = Effective(stderr, n, "os.Stderr")
        /\ Stdin(n) = Effective(stdin, n, "os.Stdin")
        /\ Stdout(n) = Effective(stdout, n, "os.Stdout")

\* A Set call leaves what the two other functions return for every Command.
OthersKept ==
    /\ last'.op = "SetStderr" => \A n \in Nodes : Stdin(n)' = Stdin(n) /\ Stdout(n)' = Stdout(n)
    /\ last'.op = "SetStdin" => \A n \in Nodes : Stderr(n)' = Stderr(n) /\ Stdout(n)' = Stdout(n)
    /\ last'.op = "SetStdout" => \A n \in Nodes : Stderr(n)' = Stderr(n) /\ Stdin(n)' = Stdin(n)

\* C18: in every state, after every Add and every Set call, each of Stderr,
\* Stdin and Stdout returns the stream set on the nearest of the Command and
\* the Commands above it, or the stream of the process when none has one;
\* and a Set call of one stream changes what the functions of the two other
\* streams return for no Command.
C18_StreamResolution == []Resolved /\ [][Idle => OthersKept]_vars

\* SetStdout on a Command with a child that has no output stream of its own
\* has changed what Stdout returns for the child.
C18_Witness ==
    /\ last.op = "SetStdout"
    /\ stdout[last.c] = "buf"
    /\ \E n \in Nodes :
          /\ parent[n] = last.c /\ parent[last.c] # Nil
          /\ stdout[n] = Nil
          /\ Stdout(n) = "buf"
          /\ Stderr(n) # "buf" /\ Stdin(n) = "os.Stdin"

(***************************************************************************)
(* Properties of Run                                                       *)
(***************************************************************************)
\* C19: at every Command with Run that the call reaches with arguments
\* whose flags parse without error and without a request for help, Execute
\* calls the Run of that Command once, with all the arguments left after the
\* flags, calls no other Run and Execute on no child, and writes no help,
\* whatever the children of the Command and the arguments are.
C19_RunFirst ==
    [][LET c == last'.c  args == last'.args IN
          ExecuteStep(c, args)
              => \A L \in {Levels(c, args)} :
                 \A i \in 1..Len(L) :
                 \A n \in {L[i].c} :
                 \A pr \in {Parse(SetFlags[n], L[i].args)} :
                 \A r \in {Execute(n, L[i].args, last'.act)} :
                      Run[n] /\ ~pr.help /\ pr.err = <<>>
                           => /\ r.ran = <<[c |-> n, args |-> pr.args]>>
                              /\ r.out = <<>>
                              /\ r.fl = {n}
                              /\ i = Len(L)
                              /\ last'.ran = r.ran /\ last'.out = <<>>
                              /\ \A m \in Nodes :
                                    flags'[m] # flags[m] => \E j \in 1..Len(L) : L[j].c = m]_vars

\* Execute of a Command with Run and with a child named help has called Run
\* with help as its first argument, and has written nothing.
C19_Witness ==
    /\ last.op = "Execute"
    /\ Run[last.c]
    /\ Len(last.args) >= 1
    /\ ToLower(last.args[1]) = txtHelpName
    /\ ChildNamed(last.c, last.args[1]) # {}
    /\ last.ran = <<[c |-> last.c, args |-> last.args]>>
    /\ last.out = <<>>
    /\ \A n \in ChildNamed(last.c, last.args[1]) : flags[n].nil

(***************************************************************************)
(* Properties of the help text                                             *)
(***************************************************************************)
\* The lines of the text s: the pieces between its newlines.
\* The integers of P in increasing order.
RECURSIVE Increasing(_)
Increasing(P) ==
    IF P = {} THEN <<>>
    ELSE \* the CHOOSE has one candidate: the least member of P
         LET m == CHOOSE p \in P : \A q \in P : p <= q
         IN <<m>> \o Increasing(P \ {m})

\* The ends of the lines of the text s: the places of its newlines, with
\* the places before its first and after its last character.
Ends(s) == {0, Len(s) + 1} \cup {i \in 1..Len(s) : s[i] = "\n"}

\* The lines of the text s, the pieces between the ends at, in order.
Lines(s, at) ==
    [k \in 1..(Len(at) - 1) |-> SubSeq(s, at[k] + 1, at[k + 1] - 1)]

\* The line of the child k in a list of help.
EntryLine(k) == txtIndent \o PadRight(FirstWordLower(k), 16) \o <<" ">> \o Short[k]

txtHeadCommands == <<"T", "h", "e", " ", "c", "o", "m", "m", "a", "n", "d", "s", " ", "a", "r", "e", ":">>

txtHeadTopics == <<"A", "d", "d", "i", "t", "i", "o", "n", "a", "l", " ", "h", "e", "l", "p", " ", "t", "o", "p", "i", "c", "s", ":">>

HintCommand(n) ==
    <<"U", "s", "e", " ">> \o Quote(HelpPathOf(n) \o <<" ", "<", "c", "o", "m", "m", "a", "n", "d", ">">>)
        \o <<" ", "f", "o", "r", " ", "m", "o", "r", "e", " ", "i", "n", "f", "o", "r", "m", "a", "t", "i", "o", "n", " ", "a", "b", "o", "u", "t", " ", "a", " ", "c", "o", "m", "m", "a", "n", "d", ".">>

HintTopic(n) ==
    <<"U", "s", "e", " ">> \o Quote(HelpPathOf(n) \o <<" ", "<", "t", "o", "p", "i", "c", ">">>)
        \o <<" ", "f", "o", "r", " ", "m", "o", "r", "e", " ", "i", "n", "f", "o", "r", "m", "a", "t", "i", "o", "n", " ", "a", "b", "o", "u", "t", " ", "t", "h", "a", "t", " ", "t", "o", "p", "i", "c", ".">>

\* In the lines ls the heading h comes once, followed by an empty line, the
\* lines E[k] of the Commands k of S in the order of their names, an empty
\* line and the line hint.
ListedUnder(ls, h, S, E, hint) ==
    /\ Cardinality({i \in 1..Len(ls) : ls[i] = h}) = 1
    /\ \A i \in {j \in 1..Len(ls) : ls[j] = h} :
       \A m \in {Cardinality(S)} :
          /\ i + 3 + m <= Len(ls)
          /\ ls[i + 1] = <<>>
          /\ \A k \in S : \E j \in 1..m : ls[i + 1 + j] = E[k]
          /\ \A j1, j2 \in 1..m : \A a, b \in S :
                (j1 < j2 /\ ls[i + 1 + j1] = E[a] /\ ls[i + 1 + j2] = E[b])
                    => StrLess(FirstWordLower(a), FirstWordLower(b))
          /\ ls[i + 2 + m] = <<>>
          /\ ls[i + 3 + m] = hint

\* The lists of the text t, the help of the Command n.
Listing(n, t) ==
    \A at \in {Increasing(Ends(t))} :
    \A ls \in {Lines(t, at)} :
    \A kids \in {{e \in Nodes : parent[e] = n}} :
    \A cmds \in {{e \in kids : Run[e] \/ HasChild(e)}} :
    \A E \in {[k \in kids |-> EntryLine(k)]} :
    \A hc \in {HintCommand(n)}, ht \in {HintTopic(n)} :
        /\ ListedUnder(ls, txtHeadCommands, cmds, E, hc)
        /\ IF kids = cmds
           THEN \A i \in 1..Len(ls) : ls[i] # txtHeadTopics /\ ls[i] # ht
           ELSE ListedUnder(ls, txtHeadTopics, kids \ cmds, E, ht)
        /\ \A k \in kids : Cardinality({i \in 1..Len(ls) : ls[i] = E[k]}) = 1

\* C20: what Execute has written is the help or the usage line of a Command,
\* rendered again in the state that Execute leaves; and in the help of a
\* Command with children each child has one line; the children with Run or
\* with children come under "The commands are:", the others under
\* "Additional help topics:", each list in the order of the names; the
\* heading of the topics and its hint are there exactly when a child has
\* neither Run nor children.
C20_HelpLists ==
    (last.op = "Execute" /\ last.out # <<>>)
        => \A w \in {last.out[1].s} :
           \E n \in Nodes :
           \E t \in {helpText(n)} :
              \/ w = t /\ (HasChild(n) => Listing(n, t))
              \/ w # t /\ w = UsageLine(n)

\* Execute has written the help of a Command with two children under the
\* commands and one under the topics.
C20_Witness ==
    /\ last.op = "Execute"
    /\ Len(last.out) = 1
    /\ last.out[1].s = helpText(last.c)
    /\ Cardinality({e \in Nodes : parent[e] = last.c /\ (Run[e] \/ HasChild(e))}) = 2
    /\ Cardinality({e \in Nodes : parent[e] = last.c /\ ~Run[e] /\ ~HasChild(e)}) = 1

(***************************************************************************)
(* Properties of an Add that panics                                        *)
(***************************************************************************)
\* No goroutine is inside Add.
AllIdle == \A g \in Goroutines : gor[g].pc = "idle"

\* The calls of Add made one after the other, in the steps of the
\* goroutines: a call starts when no other call is under way.
NextAdd ==
    \/ \E g \in Goroutines, c \in Callers, kid \in Nodes \cup {Nil} :
          AllIdle /\ GoLock(g, c, kid)
    \/ \E g \in Goroutines : GoLoop(g)
    \/ \E g \in Goroutines : GoCheck(g)
    \/ \E g \in Goroutines : GoInsert(g)
    \/ \E g \in Goroutines : GoLink(g)
    \/ \E g \in Goroutines : GoPanic(g)
    \/ \E g \in Goroutines : GoUnlock(g)

SpecAdd == Init /\ [][NextAdd]_vars

\* The call of g has found a reason to panic.
PanicPath(g) == gor[g].why # ""

\* The step is one of the call of g.
Moves(g) == gor'[g] # gor[g]

\* C21: in calls of Add made one after the other, no step of a call that
\* panics changes parent or commands: they change only in the two steps
\* that insert and link the child, which a call reaches with no reason to
\* panic and which lead to no panic; the call that panics always gets its
\* message and goes on to the deferred Unlock, and the Unlock frees the
\* mutex of c, so that no mutex is held once the call is over.
C21_PanickingAdd ==
    /\ [](\A g \in Goroutines : gor[g].pc # "spin")
    /\ [](AllIdle => \A n \in Nodes : mu[n] = Nil)
    /\ [][\A g \in Goroutines :
            Moves(g) =>
               /\ (PanicPath(g) \/ PanicPath(g)') => UNCHANGED <<parent, commands>>
               /\ ~UNCHANGED <<parent, commands>>
                     => gor[g].pc \in {"insert", "link"} /\ ~PanicPath(g)
               /\ gor[g].pc \in {"insert", "link"}
                     => /\ gor'[g].pc \in {"link", "unlock"}
                        /\ ~PanicPath(g)'
                        /\ gor'[g].panic = <<>>
               /\ gor[g].pc = "panic"
                     => /\ gor'[g].pc = "unlock"
                        /\ gor'[g].panic = PanicMsg(gor[g].c, gor[g].child, gor[g].why)
                        /\ gor'[g].panic # <<>>
               /\ gor[g].pc = "unlock"
                     => /\ gor'[g].pc = "idle"
                        /\ mu'[gor[g].c] = Nil
                        /\ (gor[g].panic # <<>>) <=> PanicPath(g)]_vars

\* With a child in the tree, a call of Add is about to return with the
\* panic of a child that has another parent, the mutex still held.
C21_Witness ==
    \E g \in Goroutines :
        /\ gor[g].pc = "unlock"
        /\ gor[g].why = "parent"
        /\ gor[g].panic # <<>>
        /\ mu[gor[g].c] = g
        /\ parent[gor[g].child] \in Nodes \ {gor[g].c}
        /\ gor[g].child \in {commands[parent[gor[g].child]][k] :
                                 k \in DOMAIN commands[parent[gor[g].child]]}

(***************************************************************************)
(* Execute one call frame and one loop turn a step                         *)
(***************************************************************************)
\* A call on the child that passes the arguments on whole
descend_SameArgs(pc, kid, args) == [NoFrame EXCEPT !.pc = pc, !.c = kid, !.args = args]

\* child.Execute(args[1:]), c.help(args[1:]) and child.help(args[1:])
descend(pc, kid, args) == [NoFrame EXCEPT !.pc = pc, !.c = kid, !.args = Tail(args)]

\* Where the walk w of the Command c starts: longName and longUsage at the
\* parent of c, helpPath and the streams at c.
WalkStart(c, w) == IF w \in {"longName", "longUsage"} THEN parent[c] ELSE c

\* The frame that makes the walks ws of the Command c and returns.
Walking(c, ws) ==
    IF ws = <<>> THEN [NoFrame EXCEPT !.pc = "done", !.c = c]
    ELSE [NoFrame EXCEPT !.pc = "walk", !.c = c, !.walks = ws, !.p = WalkStart(c, ws[1])]

\* The walks of help(w, c): longUsage for the usage, helpPath for the hints.
helpWalks(c) ==
    (IF Run[c] \/ hasChildren(c) THEN <<"longUsage">> ELSE <<>>)
        \o (IF hasChildren(c) THEN <<"helpPath">> ELSE <<>>)

\* A caller calls c.Execute(args).
StartExecute(c, args) ==
    /\ exit = Nil
    /\ last.op = "none"
    /\ call.pc = "idle"
    /\ \A n \in Nodes : mu[n] = Nil
    /\ nexec < MaxExec
    /\ nexec' = nexec + 1
    /\ call' = [NoFrame EXCEPT !.pc = "Execute", !.c = c, !.args = args]
    /\ UNCHANGED <<parent, commands, mu, Run, SetFlags, flags, stdin, stdout, stderr, nsets, exit,
                   last, gor>>

\* The body of Execute up to the call it makes or to its return; a Run
\* function that is called returns.
StepExecute ==
    /\ call.pc = "Execute"
    /\ flags' = [flags EXCEPT ![call.c] = NewFlagSet(call.c)]
    /\ \E c \in {call.c} :
       \E pr \in {Parse(SetFlags[c], call.args)} :
          call' = IF pr.help THEN Walking(c, <<"Stdout">> \o helpWalks(c))
                  ELSE IF pr.err # <<>> THEN Walking(c, <<>>)
                  ELSE IF Run[c] THEN Walking(c, <<>>)
                  ELSE IF ~hasChildren(c) THEN Walking(c, <<>>)
                  ELSE IF Len(pr.args) = 0 THEN Walking(c, <<"Stderr">> \o helpWalks(c))
                  ELSE IF child(c, pr.args[1]) = Nil
                  THEN IF ToLower(pr.args[1]) # txtHelpName
                       THEN Walking(c, <<"longName">>)
                       ELSE descend("help", c, pr.args)
                  ELSE descend("Execute", child(c, pr.args[1]), pr.args)
    /\ UNCHANGED <<parent, commands, mu, Run, SetFlags, stdin, stdout, stderr, nsets, exit, last,
                   nexec, gor>>

\* The body of Command.help up to the call it makes or to its return.
StepHelp ==
    /\ call.pc = "help"
    /\ \E c \in {call.c} :
          call' = IF Len(call.args) = 0 THEN Walking(c, <<"Stdout">> \o helpWalks(c))
                  ELSE IF child(c, call.args[1]) = Nil
                  THEN Walking(c, <<"helpPath", "helpPath">>)
                  ELSE descend("help", child(c, call.args[1]), call.args)
    /\ UNCHANGED <<parent, commands, mu, Run, SetFlags, flags, stdin, stdout, stderr, nsets, exit,
                   last, nexec, gor>>

\* The walk w is over at p: the loops of longName, longUsage and helpPath
\* at p == nil, Stdout and Stderr at a Command with the stream set or
\* without parent.
WalkOver(w, p) ==
    CASE w = "Stdout" -> stdout[p] # Nil \/ parent[p] = Nil
      [] w = "Stderr" -> stderr[p] # Nil \/ parent[p] = Nil
      [] OTHER -> p = Nil

\* One turn of a walk up the parent references: p = p.parent.
StepWalk ==
    /\ call.pc = "walk"
    /\ call' = IF WalkOver(call.walks[1], call.p)
               THEN Walking(call.c, Tail(call.walks))
               ELSE [call EXCEPT !.p = parent[call.p]]
    /\ UNCHANGED <<parent, commands, mu, Run, SetFlags, flags, stdin, stdout, stderr, nsets, exit,
                   last, nexec, gor>>

\* Execute returns to the caller.
EndExecute ==
    /\ call.pc = "done"
    /\ call' = NoFrame
    /\ UNCHANGED <<parent, commands, mu, Run, SetFlags, flags, stdin, stdout, stderr, nsets, exit,
                   last, nexec, gor>>

\* The steps of the call under way.
Running == StepExecute \/ StepHelp \/ StepWalk \/ EndExecute

NextFrames ==
    \/ Idle /\ call.pc = "idle" /\ \E c \in Callers, kid \in Nodes \cup {Nil} : Add(c, kid)
    \/ Idle /\ \E c \in Roots, args \in ArgVecs : StartExecute(c, args)
    \/ StepExecute
    \/ StepHelp
    \/ StepWalk
    \/ EndExecute
    \/ Return

\* A call that is under way goes on: Execute runs on the stack of its caller.
SpecFrames == Init /\ [][NextFrames]_vars /\ WF_vars(Running)

(***************************************************************************)
(* Properties of the termination of Execute                                *)
(***************************************************************************)
\* A frame of Execute or of Command.help is running.
InBody(f) == f.pc \in {"Execute", "help"}

\* The step is a call from the body of Execute or of Command.help: it is
\* made with fewer arguments, Execute calls Execute and help calls help on
\* a child of the Command, in its map and with it for parent, and Execute
\* calls help on the Command itself.
CallsDown ==
    (InBody(call) /\ InBody(call'))
        => /\ Len(call'.args) < Len(call.args)
           /\ IF call'.pc = call.pc
              THEN /\ parent[call'.c] = call.c
                   /\ \E k \in DOMAIN commands[call.c] : commands[call.c][k] = call'.c
              ELSE call.pc = "Execute" /\ call'.c = call.c

\* The step is a turn of a walk: it goes to the parent, a Command with
\* fewer Commands above it, or from a Command without parent to nil.
WalksUp ==
    (call.pc = "walk" /\ call'.pc = "walk" /\ call'.walks = call.walks)
        => /\ call.p \in Nodes
           /\ call'.p = parent[call.p]
           /\ call'.p # Nil => Depth(call'.p) < Depth(call.p)

\* The step ends a walk: at nil for longName, longUsage and helpPath, and
\* for a stream at a Command of the chain of c, the first with the stream
\* set or else the one without parent.
WalkEnds ==
    (call.pc = "walk" /\ call'.walks # call.walks)
        => \A w \in {call.walks[1]} :
           IF w \in {"Stdout", "Stderr"}
           THEN /\ call.p \in ChainOf(call.c)
                /\ Effective(IF w = "Stdout" THEN stdout ELSE stderr, call.c, "default")
                      = Effective(IF w = "Stdout" THEN stdout ELSE stderr, call.p, "default")
           ELSE call.p = Nil

=============================================================================
